---- MODULE Spec2Model ----
(***************************************************************************)
(* Phone Agreement Management: accounts (roles, suspension gating),        *)
(* inventory (Phone, Agreement, PhoneHistory, PhoneAssignment) and sales   *)
(* (SalesTransaction), as a state machine with one action per request      *)
(* handler.  Money is counted in cents, commission rates in hundredths of  *)
(* a percent (both are two-decimal DecimalFields in the source).           *)
(***************************************************************************)
EXTENDS Integers, Sequences, FiniteSets, TLC

VARIABLES users, sessions, phones, agreements, history, assignments,
          transactions, sales_targets, in_flight, admin_edits, response

vars == <<users, sessions, phones, agreements, history, assignments,
          transactions, sales_targets, in_flight, admin_edits, response>>

\* the database tables; the session store is not among them
data == <<users, phones, agreements, history, assignments, transactions,
         sales_targets>>

(***************************************************************************)
(* Bounds of the model.                                                    *)
(***************************************************************************)
MaxSellers == 2
MaxSessions == 1
MaxPhones == 2
MaxAssignments == 1
MaxAgreements == 4
MaxAdminEdits == 1
MaxWorkers == 2
MaxConcurrentAssignments == 2

(***************************************************************************)
(* Values.                                                                 *)
(***************************************************************************)
None == 0
Anon == 0
NullPrice == -1
\* a DateTimeField counts instants, a DateField days: TicksPerDay instants
\* to the day, the first of them midnight
TicksPerDay == 2
\* timezone.now() of the requests: after midnight on day 2
Now == 2 * TicksPerDay + 1
\* the server's worker threads and a worker that handles no request
Workers == 1..MaxWorkers
Idle == [pc |-> "idle"]
Usernames == 1..(2 + MaxSellers)
Emails == 1..(2 + MaxSellers)
Imeis == 1..MaxPhones
Serials == 1..MaxPhones
Prices == {0, 200}
SalePrices == {0, 325}
Rates == {0, 1000}
RoundingModes == {"half_even", "half_up"}

ROLE_CHOICES == {"seller", "manager"}
STATUS_CHOICES == {"available", "sold", "assigned"}
ACTION_CHOICES == {"buy", "sell", "assign", "approve", "reject"}
ASSIGNMENT_STATUS_CHOICES == {"pending", "approved", "rejected"}

PendingReason == "New account pending manager approval"
RejectedReason == "Account rejected by manager"
ManagerReason == "Suspended by manager"

allowed_urls == {"hold", "logout"}

\* read-only pages: lists, details, dashboards, reports
ReadRoutes == {"phone_list", "sales_dashboard"}
ManagerReadRoutes == {"manager_dashboard"}

UserIds == 1..Len(users)
PhoneIds == 1..Len(phones)
AgreementIds == 1..Len(agreements)
AssignmentIds == 1..Len(assignments)
HistoryIds == 1..Len(history)
TransactionIds == 1..Len(transactions)

\* who can send a request: a logged-in user or an anonymous visitor
Requesters == sessions \cup {Anon}

\* everybody who may ever send one
Visitors == Usernames \cup {Anon}

(***************************************************************************)
(* accounts/models.py                                                      *)
(***************************************************************************)
is_authenticated(u) == u # Anon

\* the role test accepting every account that has a role
is_manager_any_role(u) == users[u].role \in ROLE_CHOICES

is_manager(u) == users[u].role = "manager"

is_seller(u) == users[u].role = "seller"

is_superuser(u) == users[u].is_superuser

\* suspend with the flag assignment left out: only the reason is recorded
suspend_reason_only(user, reason, suspended_by) ==
    [user EXCEPT !.suspended_at = TRUE,
                 !.suspended_reason = reason,
                 !.suspended_by = suspended_by]

suspend(user, reason, suspended_by) ==
    [user EXCEPT !.is_suspended = TRUE,
                 !.suspended_at = TRUE,
                 !.suspended_reason = reason,
                 !.suspended_by = suspended_by]

\* activate clearing the flag and leaving the rest of the record
activate_flag_only(user) == [user EXCEPT !.is_suspended = FALSE]

activate(user) ==
    [user EXCEPT !.is_suspended = FALSE,
                 !.suspended_at = FALSE,
                 !.suspended_reason = "",
                 !.suspended_by = None]

create_user(username, email, role, superuser) ==
    [username |-> username, email |-> email, role |-> role, is_superuser |-> superuser,
     is_suspended |-> FALSE, suspended_at |-> FALSE, suspended_reason |-> "",
     suspended_by |-> None, profile_complete |-> FALSE]

\* all([first_name, last_name, signature, phone_number, address, national_id]);
\* the six fields are kept as the one boolean the views test
profile_complete(u) == users[u].profile_complete

(***************************************************************************)
(* accounts/middleware.py and the login_required decorator                 *)
(***************************************************************************)
\* the middleware holding only the accounts that somebody suspended by hand
SuspensionMiddleware_suspended_by(u, path) ==
    IF /\ is_authenticated(u)
       /\ users[u].is_suspended
       /\ users[u].suspended_by # None
       /\ path \notin allowed_urls
    THEN "redirect:hold"
    ELSE "pass"

\* the middleware with the allow-list test inverted
SuspensionMiddleware_inverted(u, path) ==
    IF is_authenticated(u) /\ users[u].is_suspended /\ path \in allowed_urls
    THEN "redirect:hold"
    ELSE "pass"

\* the middleware without its allow-list of hold and logout
SuspensionMiddleware_no_allowed_urls(u, path) ==
    IF is_authenticated(u) /\ users[u].is_suspended
    THEN "redirect:hold"
    ELSE "pass"

SuspensionMiddleware(u, path) ==
    IF is_authenticated(u) /\ users[u].is_suspended /\ path \notin allowed_urls
    THEN "redirect:hold"
    ELSE "pass"

login_required(u) == IF is_authenticated(u) THEN "pass" ELSE "redirect:login"

\* the response that stops a request before the view body, or "pass"
Dispatch(u, path, needs_login) ==
    IF SuspensionMiddleware(u, path) # "pass" THEN SuspensionMiddleware(u, path)
    ELSE IF needs_login THEN login_required(u)
    ELSE "pass"

Reply(resp) == response' = resp

(***************************************************************************)
(* Initial state: the database after createsuperuser and the creation of   *)
(* one manager account by the superuser; nobody is logged in.              *)
(***************************************************************************)
Init ==
    /\ users = <<create_user(1, 1, "none", TRUE),
                 create_user(2, 2, "manager", FALSE)>>
    /\ sessions = {}
    /\ phones = <<>>
    /\ agreements = <<>>
    /\ history = <<>>
    /\ assignments = <<>>
    /\ transactions = <<>>
    /\ sales_targets = <<>>
    /\ in_flight = [w \in Workers |-> Idle]
    /\ admin_edits = 0
    /\ response = "none"

(***************************************************************************)
(* accounts/views.py                                                       *)
(***************************************************************************)
\* the validation without the test for an existing email
register_valid_no_email_check(username, email, passwords_match, phone_ok) ==
    /\ passwords_match
    /\ ~\E x \in UserIds : users[x].username = username
    /\ phone_ok

\* register_view: the four validation tests; phone_ok is
\* phone_number.startswith('+250') and len(phone_number) == 13
register_valid(username, email, passwords_match, phone_ok) ==
    /\ passwords_match
    /\ ~\E x \in UserIds : users[x].username = username
    /\ ~\E x \in UserIds : users[x].email = email
    /\ phone_ok

register_view(u, username, email, passwords_match, phone_ok) ==
    /\ u \in Requesters
    /\ UNCHANGED <<in_flight, sales_targets, sessions, phones, agreements, history, assignments,
                   transactions, admin_edits>>
    /\ IF Dispatch(u, "register", FALSE) # "pass"
       THEN Reply(Dispatch(u, "register", FALSE))
            /\ UNCHANGED users
       ELSE IF is_authenticated(u)
       THEN Reply("redirect:home") /\ UNCHANGED users
       ELSE IF ~register_valid(username, email, passwords_match, phone_ok)
       THEN Reply("render:register") /\ UNCHANGED users
       ELSE /\ Len(users) < 2 + MaxSellers
            /\ users' = Append(users,
                   suspend(create_user(username, email, "seller", FALSE),
                           PendingReason, None))
            /\ Reply("redirect:login")

login_view(u, target, password_ok) ==
    /\ u \in Requesters
    /\ target \in UserIds
    /\ UNCHANGED <<in_flight, sales_targets, users, phones, agreements, history, assignments,
                   transactions, admin_edits>>
    /\ IF Dispatch(u, "login", FALSE) # "pass"
       THEN Reply(Dispatch(u, "login", FALSE))
            /\ UNCHANGED sessions
       ELSE IF is_authenticated(u)
       THEN Reply("redirect:home") /\ UNCHANGED sessions
       ELSE IF ~password_ok
       THEN Reply("render:login") /\ UNCHANGED sessions
       ELSE /\ Cardinality(sessions \cup {target}) <= MaxSessions
            /\ sessions' = sessions \cup {target}
            /\ Reply(IF ~is_superuser(target) /\ users[target].is_suspended
                  THEN "redirect:hold"
                  ELSE IF is_superuser(target) THEN "redirect:admin"
                  ELSE IF is_manager(target) THEN "redirect:manager_dashboard"
                  ELSE IF is_seller(target) THEN "redirect:phone_list"
                  ELSE "redirect:home")

logout_view(u) ==
    /\ u \in Requesters
    /\ UNCHANGED <<in_flight, sales_targets, users, phones, agreements, history, assignments,
                   transactions, admin_edits>>
    /\ IF Dispatch(u, "logout", FALSE) # "pass"
       THEN Reply(Dispatch(u, "logout", FALSE))
            /\ UNCHANGED sessions
       ELSE /\ sessions' = sessions \ {u}
            /\ Reply("redirect:home")

hold_view(u) ==
    /\ u \in Requesters
    /\ UNCHANGED <<in_flight, sales_targets, users, sessions, phones, agreements, history, assignments,
                   transactions, admin_edits>>
    /\ IF Dispatch(u, "hold", TRUE) # "pass"
       THEN Reply(Dispatch(u, "hold", TRUE))
       ELSE IF ~users[u].is_suspended
       THEN Reply("redirect:home")
       ELSE Reply("render:hold")

home_view(u) ==
    /\ u \in Requesters
    /\ UNCHANGED <<in_flight, sales_targets, users, sessions, phones, agreements, history, assignments,
                   transactions, admin_edits>>
    /\ IF Dispatch(u, "home", FALSE) # "pass"
       THEN Reply(Dispatch(u, "home", FALSE))
       ELSE IF ~is_authenticated(u)
       THEN Reply("render:landing")
       ELSE IF is_superuser(u) THEN Reply("redirect:admin")
       ELSE IF is_manager(u)
       THEN Reply("redirect:manager_dashboard")
       ELSE Reply("redirect:phone_list")

profile_view(u, email, complete) ==
    /\ u \in Requesters
    /\ UNCHANGED <<in_flight, sales_targets, sessions, phones, agreements, history, assignments,
                   transactions, admin_edits>>
    /\ IF Dispatch(u, "profile", TRUE) # "pass"
       THEN Reply(Dispatch(u, "profile", TRUE))
            /\ UNCHANGED users
       ELSE /\ users' = [users EXCEPT ![u].email = email,
                                      ![u].profile_complete = complete]
            /\ Reply("redirect:profile")

\* list, detail, dashboard and report pages: they only read
read_view(u, path) ==
    /\ u \in Requesters
    /\ UNCHANGED <<in_flight, sales_targets, users, sessions, phones, agreements, history, assignments,
                   transactions, admin_edits>>
    /\ IF Dispatch(u, path, TRUE) # "pass"
       THEN Reply(Dispatch(u, path, TRUE))
       ELSE IF path \in ManagerReadRoutes /\ ~(is_manager(u) \/ is_superuser(u))
       THEN Reply("redirect:home")
       ELSE Reply("render")

approve_seller_view(u, user_id, action) ==
    /\ u \in Requesters
    /\ UNCHANGED <<in_flight, sales_targets, sessions, phones, agreements, history, assignments,
                   transactions, admin_edits>>
    /\ IF Dispatch(u, "approve_seller", TRUE) # "pass"
       THEN Reply(Dispatch(u, "approve_seller", TRUE))
            /\ UNCHANGED users
       ELSE IF ~(is_manager(u) \/ is_superuser(u))
       THEN Reply("redirect:home")
            /\ UNCHANGED users
       ELSE IF ~(user_id \in UserIds /\ users[user_id].role = "seller")
       THEN Reply("404") /\ UNCHANGED users
       ELSE /\ users' = [users EXCEPT ![user_id] =
                   IF action = "approve" THEN activate(users[user_id])
                   ELSE IF action = "reject"
                        THEN suspend(users[user_id], RejectedReason, u)
                   ELSE users[user_id]]
            /\ Reply("redirect:pending_sellers")

\* the toggle suspending whatever the seller's state is
toggle_seller_status_always_suspends(seller, requester) ==
    suspend(seller, ManagerReason, requester)

\* toggle_seller_status_view: the seller row after activate() or suspend()
toggle_seller_status(seller, requester) ==
    IF seller.is_suspended
    THEN activate(seller)
    ELSE suspend(seller, ManagerReason, requester)

toggle_seller_status_view(u, user_id) ==
    /\ u \in Requesters
    /\ UNCHANGED <<in_flight, sales_targets, sessions, phones, agreements, history, assignments,
                   transactions, admin_edits>>
    /\ IF Dispatch(u, "toggle_seller_status", TRUE) # "pass"
       THEN Reply(Dispatch(u, "toggle_seller_status", TRUE))
            /\ UNCHANGED users
       ELSE IF ~(is_manager(u) \/ is_superuser(u))
       THEN Reply("redirect:home")
            /\ UNCHANGED users
       ELSE IF ~(user_id \in UserIds /\ users[user_id].role = "seller")
       THEN Reply("404")
            /\ UNCHANGED users
       ELSE /\ users' = [users EXCEPT ![user_id] =
                                   toggle_seller_status(users[user_id], u)]
            /\ Reply("redirect:manage_sellers")

(***************************************************************************)
(* sales/models.py                                                         *)
(***************************************************************************)
\* value / 10000 rounded to a whole number of cents, as the two-decimal
\* DecimalField stores it: ties go to the even cent (decimal's default
\* context) or away from zero (a NUMERIC column rounding in the database)
Quantize(value, mode) ==
    LET q == value \div 10000
        r == value % 10000
    IN  IF r < 5000 THEN q
        ELSE IF r > 5000 THEN q + 1
        ELSE IF mode = "half_even" THEN (IF q % 2 = 0 THEN q ELSE q + 1)
        ELSE (IF value > 0 THEN q + 1 ELSE q)

\* SalesTransaction.save: the row that is written for the object t
SalesTransaction_save(t, mode) ==
    IF t.sale_price # 0 /\ t.cost_price # 0
    THEN [t EXCEPT !.profit = t.sale_price - t.cost_price,
                   !.commission_amount =
                       Quantize((t.sale_price - t.cost_price) * t.commission_rate,
                                mode)]
    ELSE t

(***************************************************************************)
(* agreements/models.py                                                    *)
(***************************************************************************)
HistoryRow(phone, action, from_user, to_user, agreement) ==
    [phone |-> phone, action |-> action, from_user |-> from_user,
     to_user |-> to_user, agreement |-> agreement]

\* approve without the ownership transfer
approve_keeps_owner(id) ==
    LET a == assignments[id] IN
    [assignments |-> [assignments EXCEPT ![id].status = "approved"],
     phones      |-> [phones EXCEPT ![a.phone].status = "available"],
     history     |-> Append(history,
                        HistoryRow(a.phone, "approve", a.from_seller,
                                   a.to_seller, None))]

\* PhoneAssignment.approve: the tables after the three writes
approve(id) ==
    LET a == assignments[id] IN
    [assignments |-> [assignments EXCEPT ![id].status = "approved"],
     phones      |-> [phones EXCEPT ![a.phone].current_owner = a.to_seller,
                                    ![a.phone].status = "available"],
     history     |-> Append(history,
                        HistoryRow(a.phone, "approve", a.from_seller,
                                   a.to_seller, None))]

\* reject written as a copy of approve: the phone goes to the recipient
reject_transfers_owner(id) ==
    LET a == assignments[id] IN
    [assignments |-> [assignments EXCEPT ![id].status = "rejected"],
     phones      |-> [phones EXCEPT ![a.phone].current_owner = a.to_seller,
                                    ![a.phone].status = "available"],
     history     |-> Append(history,
                        HistoryRow(a.phone, "reject", a.to_seller,
                                   a.from_seller, None))]

\* PhoneAssignment.reject
reject(id) ==
    LET a == assignments[id] IN
    [assignments |-> [assignments EXCEPT ![id].status = "rejected"],
     phones      |-> [phones EXCEPT ![a.phone].status = "available"],
     history     |-> Append(history,
                        HistoryRow(a.phone, "reject", a.to_seller,
                                   a.from_seller, None))]

(***************************************************************************)
(* agreements/views.py (the routed views)                                  *)
(***************************************************************************)
\* fault: where the POST body makes the handler raise, "none" if nowhere:
\* "agreement" is a missing or malformed agreement field, "photo" a data URL
\* that does not split or decode
Faults == {"none", "agreement", "photo"}

\* phone.purchase_price or Decimal('0')
cost_price_of(phone) ==
    IF phone.purchase_price = NullPrice THEN 0 ELSE phone.purchase_price

\* sell_phone_view: get_object_or_404(Phone, pk=phone_id)
sell_phone_lookup(u, phone_id) == phone_id \in PhoneIds

\* the availability test refusing only a phone that is already sold
sell_phone_available_unless_sold(phone_id) == phones[phone_id].status # "sold"

\* sell_phone_view: if phone.status != 'available': ... redirect
sell_phone_available(phone_id) == phones[phone_id].status = "available"

\* the sale also making the selling user the owner
sell_phone_save_takes_ownership(u, phone_id) ==
    [phones EXCEPT ![phone_id].status = "sold", ![phone_id].current_owner = u]

\* sell_phone_view: phone.status = 'sold'; phone.save()
sell_phone_save(u, phone_id) == [phones EXCEPT ![phone_id].status = "sold"]

\* assign_phone_view: get_object_or_404(Phone, id=phone_id, current_owner=request.user)
assign_phone_lookup(u, phone_id) ==
    phone_id \in PhoneIds /\ phones[phone_id].current_owner = u

\* the availability test refusing only a phone that is already assigned
assign_phone_available_unless_assigned(phone_id) ==
    phones[phone_id].status # "assigned"

\* assign_phone_view: if phone.status != 'available': ... redirect
assign_phone_available(phone_id) == phones[phone_id].status = "available"

\* the recipient lookup without its is_suspended=False filter
assign_phone_recipient_any_seller(to_seller) ==
    /\ to_seller \in UserIds
    /\ users[to_seller].role = "seller"

\* assign_phone_view: CustomUser.objects.get(id=..., role='seller', is_suspended=False)
assign_phone_recipient(to_seller) ==
    /\ to_seller \in UserIds
    /\ users[to_seller].role = "seller"
    /\ ~users[to_seller].is_suspended

\* the lookup without its status='pending' filter
approve_assignment_lookup_any_status(u, assignment_id) ==
    /\ assignment_id \in AssignmentIds
    /\ assignments[assignment_id].to_seller = u

\* approve_assignment_view: get_object_or_404(..., to_seller=request.user, status='pending')
approve_assignment_lookup(u, assignment_id) ==
    /\ assignment_id \in AssignmentIds
    /\ assignments[assignment_id].to_seller = u
    /\ assignments[assignment_id].status = "pending"

\* the lookup without its to_seller=request.user filter
reject_assignment_lookup_any_user(u, assignment_id) ==
    /\ assignment_id \in AssignmentIds
    /\ assignments[assignment_id].status = "pending"

\* reject_assignment_view: get_object_or_404(..., to_seller=request.user, status='pending')
reject_assignment_lookup(u, assignment_id) ==
    /\ assignment_id \in AssignmentIds
    /\ assignments[assignment_id].to_seller = u
    /\ assignments[assignment_id].status = "pending"

\* a phone table whose only unique column is imei
Phone_unique_imei_only(imei, serial_number) ==
    \A p \in PhoneIds : phones[p].imei # imei

\* Phone.imei and Phone.serial_number are unique=True: the INSERT of
\* Phone.objects.create raises IntegrityError unless both values are new
Phone_unique(imei, serial_number) ==
    \A p \in PhoneIds : /\ phones[p].imei # imei
                         /\ phones[p].serial_number # serial_number

buy_phone_view(u, imei, serial_number, purchase_price, fault) ==
    /\ u \in Requesters
    /\ purchase_price = NullPrice => fault = "agreement"
    /\ UNCHANGED <<in_flight, sales_targets, users, sessions, assignments, transactions, admin_edits>>
    /\ IF Dispatch(u, "buy_phone", TRUE) # "pass"
       THEN Reply(Dispatch(u, "buy_phone", TRUE))
            /\ UNCHANGED <<phones, agreements, history>>
       ELSE IF ~profile_complete(u)
       THEN Reply("redirect:profile") /\ UNCHANGED <<phones, agreements, history>>
       ELSE IF ~Phone_unique(imei, serial_number)
       THEN Reply("render:buy_phone") /\ UNCHANGED <<phones, agreements, history>>
       ELSE /\ Len(phones) < MaxPhones
            /\ Len(agreements) < MaxAgreements
            /\ phones' = Append(phones,
                   [imei |-> imei, serial_number |-> serial_number,
                    status |-> "available", purchase_price |-> purchase_price,
                    current_owner |-> u])
            /\ IF fault = "agreement"
               THEN Reply("render:buy_phone") /\ UNCHANGED <<agreements, history>>
               ELSE /\ agreements' = Append(agreements,
                           [agreement_type |-> "buy", phone |-> Len(phones) + 1,
                            seller |-> u, price |-> purchase_price])
                    /\ IF fault = "photo"
                       THEN Reply("render:buy_phone") /\ UNCHANGED history
                       ELSE /\ history' = Append(history,
                                   HistoryRow(Len(phones) + 1, "buy", u, None,
                                              Len(agreements) + 1))
                            /\ Reply("redirect:agreement_detail")

sell_phone_view(u, phone_id, agreed_price, fault, mode) ==
    /\ u \in Requesters
    /\ UNCHANGED <<in_flight, sales_targets, users, sessions, assignments, admin_edits>>
    /\ IF Dispatch(u, "sell_phone", TRUE) # "pass"
       THEN Reply(Dispatch(u, "sell_phone", TRUE))
            /\ UNCHANGED <<phones, agreements, history, transactions>>
       ELSE IF ~sell_phone_lookup(u, phone_id)
       THEN Reply("404") /\ UNCHANGED <<phones, agreements, history, transactions>>
       ELSE IF ~sell_phone_available(phone_id)
       THEN Reply("redirect:phone_detail")
            /\ UNCHANGED <<phones, agreements, history, transactions>>
       ELSE IF ~profile_complete(u)
       THEN Reply("redirect:profile")
            /\ UNCHANGED <<phones, agreements, history, transactions>>
       ELSE IF fault = "agreement"
       THEN Reply("render:sell_phone")
            /\ UNCHANGED <<phones, agreements, history, transactions>>
       ELSE /\ Len(agreements) < MaxAgreements
            /\ agreements' = Append(agreements,
                   [agreement_type |-> "sell", phone |-> phone_id,
                    seller |-> u, price |-> agreed_price])
            /\ IF fault = "photo"
               THEN Reply("render:sell_phone")
                    /\ UNCHANGED <<phones, history, transactions>>
               ELSE /\ phones' = sell_phone_save(u, phone_id)
                    /\ transactions' = Append(transactions,
                          SalesTransaction_save(
                             [agreement |-> Len(agreements) + 1, seller |-> u,
                              phone |-> phone_id, sale_price |-> agreed_price,
                              cost_price |-> cost_price_of(phones[phone_id]),
                              profit |-> agreed_price
                                         - cost_price_of(phones[phone_id]),
                              commission_rate |-> 0, commission_amount |-> 0,
                              status |-> "completed", sale_date |-> Now],
                             mode))
                    /\ history' = Append(history,
                          HistoryRow(phone_id, "sell", u, None,
                                     Len(agreements) + 1))
                    /\ Reply("redirect:agreement_detail")

assign_phone_view(u, phone_id, to_seller) ==
    /\ u \in Requesters
    /\ UNCHANGED <<in_flight, sales_targets, users, sessions, agreements, history, transactions,
                   admin_edits>>
    /\ IF Dispatch(u, "assign_phone", TRUE) # "pass"
       THEN Reply(Dispatch(u, "assign_phone", TRUE))
            /\ UNCHANGED <<phones, assignments>>
       ELSE IF ~assign_phone_lookup(u, phone_id)
       THEN Reply("404") /\ UNCHANGED <<phones, assignments>>
       ELSE IF ~assign_phone_available(phone_id)
       THEN Reply("redirect:phone_list") /\ UNCHANGED <<phones, assignments>>
       ELSE IF ~assign_phone_recipient(to_seller)
       THEN Reply("render:assign_phone") /\ UNCHANGED <<phones, assignments>>
       ELSE IF to_seller = u
       THEN Reply("redirect:assign_phone") /\ UNCHANGED <<phones, assignments>>
       ELSE /\ Len(assignments) < MaxAssignments
            /\ assignments' = Append(assignments,
                   [phone |-> phone_id, from_seller |-> u,
                    to_seller |-> to_seller, status |-> "pending"])
            /\ phones' = [phones EXCEPT ![phone_id].status = "assigned"]
            /\ Reply("redirect:phone_list")

approve_assignment_view(u, assignment_id) ==
    /\ u \in Requesters
    /\ UNCHANGED <<in_flight, sales_targets, users, sessions, agreements, transactions, admin_edits>>
    /\ IF Dispatch(u, "approve_assignment", TRUE) # "pass"
       THEN Reply(Dispatch(u, "approve_assignment", TRUE))
            /\ UNCHANGED <<phones, assignments, history>>
       ELSE IF ~approve_assignment_lookup(u, assignment_id)
       THEN Reply("404") /\ UNCHANGED <<phones, assignments, history>>
       ELSE /\ assignments' = approve(assignment_id).assignments
            /\ phones' = approve(assignment_id).phones
            /\ history' = approve(assignment_id).history
            /\ Reply("redirect:assignment_list")

reject_assignment_view(u, assignment_id) ==
    /\ u \in Requesters
    /\ UNCHANGED <<in_flight, sales_targets, users, sessions, agreements, transactions, admin_edits>>
    /\ IF Dispatch(u, "reject_assignment", TRUE) # "pass"
       THEN Reply(Dispatch(u, "reject_assignment", TRUE))
            /\ UNCHANGED <<phones, assignments, history>>
       ELSE IF ~reject_assignment_lookup(u, assignment_id)
       THEN Reply("404") /\ UNCHANGED <<phones, assignments, history>>
       ELSE /\ assignments' = reject(assignment_id).assignments
            /\ phones' = reject(assignment_id).phones
            /\ history' = reject(assignment_id).history
            /\ Reply("redirect:assignment_list")

(***************************************************************************)
(* The admin site.  Only what agreements/admin.py and sales/admin.py        *)
(* configure is modelled: which models are registered, which fields are     *)
(* editable, which permissions are withdrawn.  A superuser holds every      *)
(* model permission.                                                       *)
(***************************************************************************)
\* PhoneAdmin: status and current_owner are form fields, nothing is withdrawn
PhoneAdmin_has_change_permission(u) == is_superuser(u)

\* PhoneHistoryAdmin withdraws add and delete and leaves change alone
PhoneHistoryAdmin_has_add_permission(u) == FALSE

PhoneHistoryAdmin_has_delete_permission(u) == FALSE

PhoneHistoryAdmin_has_change_permission(u) == is_superuser(u)

\* SalesTransactionAdmin: profit and commission_amount are read-only fields
SalesTransactionAdmin_has_change_permission(u) == is_superuser(u)

admin_phone_change(u, phone_id, status, current_owner) ==
    /\ u \in Requesters
    /\ admin_edits < MaxAdminEdits
    /\ phone_id \in PhoneIds
    /\ current_owner \in UserIds
    /\ UNCHANGED <<in_flight, sales_targets, users, sessions, agreements, history, assignments,
                   transactions>>
    /\ IF Dispatch(u, "admin", TRUE) # "pass"
       THEN Reply(Dispatch(u, "admin", TRUE)) /\ UNCHANGED <<phones, admin_edits>>
       ELSE IF ~PhoneAdmin_has_change_permission(u)
       THEN Reply("redirect:login") /\ UNCHANGED <<phones, admin_edits>>
       ELSE /\ phones' = [phones EXCEPT ![phone_id].status = status,
                                        ![phone_id].current_owner = current_owner]
            /\ admin_edits' = admin_edits + 1
            /\ Reply("redirect:admin")

admin_history_change(u, history_id, action) ==
    /\ u \in Requesters
    /\ admin_edits < MaxAdminEdits
    /\ history_id \in HistoryIds
    /\ UNCHANGED <<in_flight, sales_targets, users, sessions, phones, agreements, assignments,
                   transactions>>
    /\ IF Dispatch(u, "admin", TRUE) # "pass"
       THEN Reply(Dispatch(u, "admin", TRUE)) /\ UNCHANGED <<history, admin_edits>>
       ELSE IF ~PhoneHistoryAdmin_has_change_permission(u)
       THEN Reply("redirect:login") /\ UNCHANGED <<history, admin_edits>>
       ELSE /\ history' = [history EXCEPT ![history_id].action = action]
            /\ admin_edits' = admin_edits + 1
            /\ Reply("redirect:admin")

admin_transaction_change(u, transaction_id, sale_price, cost_price, commission_rate, mode) ==
    /\ u \in Requesters
    /\ admin_edits < MaxAdminEdits
    /\ transaction_id \in TransactionIds
    /\ UNCHANGED <<in_flight, sales_targets, users, sessions, phones, agreements, history, assignments>>
    /\ IF Dispatch(u, "admin", TRUE) # "pass"
       THEN Reply(Dispatch(u, "admin", TRUE))
            /\ UNCHANGED <<transactions, admin_edits>>
       ELSE IF ~SalesTransactionAdmin_has_change_permission(u)
       THEN Reply("redirect:login") /\ UNCHANGED <<transactions, admin_edits>>
       ELSE /\ transactions' = [transactions EXCEPT ![transaction_id] =
                   SalesTransaction_save(
                      [transactions[transaction_id] EXCEPT
                          !.sale_price = sale_price,
                          !.cost_price = cost_price,
                          !.commission_rate = commission_rate],
                      mode)]
            /\ admin_edits' = admin_edits + 1
            /\ Reply("redirect:admin")

(***************************************************************************)
(* The requests a requester u can send, and the complete application:      *)
(* every routed view and the admin site, from the freshly constructed      *)
(* database.                                                               *)
(***************************************************************************)
RegisterRequest(u, usernames, emails, flags) ==
    \E n \in usernames, e \in emails, pm \in flags, po \in flags :
       register_view(u, n, e, pm, po)

LoginRequest(u, targets, flags) ==
    \E t \in targets, ok \in flags : login_view(u, t, ok)

\* the pages that only read, the hold page aside
PageRequest(u) ==
    \/ home_view(u)
    \/ \E p \in ReadRoutes \cup ManagerReadRoutes : read_view(u, p)

\* the email field of the profile form as the page shows it: the stored one
OwnEmail(u) == IF u \in UserIds THEN {users[u].email} ELSE {None}

ProfileRequest(u, emails) ==
    \E e \in emails, c \in BOOLEAN : profile_view(u, e, c)

ManagerRequest(u, sellers) ==
    \/ \E s \in sellers, a \in {"approve", "reject"} : approve_seller_view(u, s, a)
    \/ \E s \in sellers : toggle_seller_status_view(u, s)

AgreementsRequest(u, prices, sale_prices, faults, modes) ==
    \/ \E i \in Imeis, s \in Serials, p \in prices, f \in faults :
          buy_phone_view(u, i, s, p, f)
    \/ \E p \in 1..MaxPhones, a \in sale_prices, f \in faults, m \in modes :
          sell_phone_view(u, p, a, f, m)
    \/ \E p \in 1..MaxPhones, t \in Usernames : assign_phone_view(u, p, t)
    \/ \E a \in 1..MaxAssignments : approve_assignment_view(u, a)
    \/ \E a \in 1..MaxAssignments : reject_assignment_view(u, a)

AdminRequest(u) ==
    \/ \E p \in 1..MaxPhones, st \in STATUS_CHOICES, o \in Usernames :
          admin_phone_change(u, p, st, o)
    \/ \E h \in HistoryIds, a \in ACTION_CHOICES : admin_history_change(u, h, a)
    \/ \E t \in TransactionIds, sp \in SalePrices, cp \in Prices, r \in Rates,
          m \in RoundingModes : admin_transaction_change(u, t, sp, cp, r, m)

AccountsRequest(u) ==
    \/ RegisterRequest(u, Usernames, Emails, BOOLEAN)
    \/ LoginRequest(u, UserIds, BOOLEAN)
    \/ logout_view(u)
    \/ hold_view(u)
    \/ PageRequest(u)
    \/ ProfileRequest(u, Emails)
    \/ ManagerRequest(u, Usernames)

Next ==
    \E u \in Visitors :
       \/ AccountsRequest(u)
       \/ AgreementsRequest(u, Prices \cup {NullPrice}, SalePrices, Faults,
                            RoundingModes)
       \/ AdminRequest(u)

Spec == Init /\ [][Next]_vars

(***************************************************************************)
(* Scenarios.  The complete application has far too many states to         *)
(* enumerate, so each property is checked on a scenario: a reachable        *)
(* starting state and the requests made from it.                           *)
(***************************************************************************)
\* account life cycle: registration, login, suspension, from the fresh database
\* every account route; the visitors register with one of two new addresses
AccountsNext ==
    \E u \in Visitors :
       \/ RegisterRequest(u, Usernames, Emails \ {1, 2}, BOOLEAN)
       \/ LoginRequest(u, UserIds, BOOLEAN)
       \/ logout_view(u)
       \/ hold_view(u)
       \/ PageRequest(u)
       \/ ProfileRequest(u, OwnEmail(u))
       \/ ManagerRequest(u, Usernames)

SpecAccounts == Init /\ [][AccountsNext]_vars

\* A shop in business: the superuser, the manager and two activated sellers
\* with complete profiles; seller 3 has bought phone 1 for 200 and sold it
\* for 325.
InitMarket(logged_in) ==
    /\ users = <<create_user(1, 1, "none", TRUE),
                 create_user(2, 2, "manager", FALSE),
                 [create_user(3, 3, "seller", FALSE) EXCEPT !.profile_complete = TRUE],
                 [create_user(4, 4, "seller", FALSE) EXCEPT !.profile_complete = TRUE]>>
    /\ sessions = logged_in
    /\ phones = <<[imei |-> 1, serial_number |-> 1, status |-> "sold",
                   purchase_price |-> 200, current_owner |-> 3]>>
    /\ agreements = <<[agreement_type |-> "buy", phone |-> 1, seller |-> 3,
                       price |-> 200],
                      [agreement_type |-> "sell", phone |-> 1, seller |-> 3,
                       price |-> 325]>>
    /\ history = <<HistoryRow(1, "buy", 3, None, 1),
                   HistoryRow(1, "sell", 3, None, 2)>>
    /\ assignments = <<>>
    /\ transactions = <<[agreement |-> 2, seller |-> 3, phone |-> 1,
                         sale_price |-> 325, cost_price |-> 200,
                         profit |-> 125, commission_rate |-> 0,
                         commission_amount |-> 0, status |-> "completed",
                         sale_date |-> Now]>>
    /\ sales_targets = <<>>
    /\ in_flight = [w \in Workers |-> Idle]
    /\ admin_edits = 0
    /\ response = "none"

\* the routed inventory views with well-formed request bodies
MarketRequest(u) ==
    AgreementsRequest(u, {200}, {325}, {"none"}, {"half_even"})

\* the inventory views with the account operations that go with them: profile
\* edits and the manager suspending and reactivating sellers
MarketNext ==
    \E u \in Visitors :
       \/ MarketRequest(u)
       \/ ProfileRequest(u, OwnEmail(u))
       \/ \E s \in Usernames : toggle_seller_status_view(u, s)

\* the manager and both sellers are logged in
SpecMarket == InitMarket({2, 3, 4}) /\ [][MarketNext]_vars

\* the same shop with every other route open as well: the requests to the
\* routes that the suspension middleware does not let through ...
GatedRequest(u) ==
    \/ MarketRequest(u)
    \/ (\E e \in OwnEmail(u) : profile_view(u, e, FALSE))
    \/ toggle_seller_status_view(u, 4)
    \/ approve_seller_view(u, 4, "approve")
    \/ PageRequest(u)
    \/ RegisterRequest(u, {2 + MaxSellers}, {2 + MaxSellers}, {TRUE})
    \/ LoginRequest(u, {4}, {TRUE})
    \/ admin_phone_change(u, 1, "available", 4)

\* ... and to the two that it does
GateNext ==
    \E u \in Visitors : GatedRequest(u) \/ hold_view(u) \/ logout_view(u)

SpecGate == InitMarket({2, 3, 4}) /\ [][GateNext]_vars

\* the superuser and both sellers are logged in; the superuser also uses
\* the admin site and suspends and reactivates seller 4
AdminMarketNext ==
    \E u \in Visitors :
       \/ MarketRequest(u)
       \/ toggle_seller_status_view(u, 4)
       \/ hold_view(u)
       \/ PageRequest(u)
       \/ RegisterRequest(u, {2 + MaxSellers}, {2 + MaxSellers}, {TRUE})
       \/ AdminRequest(u)

SpecAdmin == InitMarket({1, 3, 4}) /\ [][AdminMarketNext]_vars

(***************************************************************************)
(* Properties.                                                             *)
(***************************************************************************)
IsPrefix(s, t) == Len(s) <= Len(t) /\ SubSeq(t, 1, Len(s)) = s

\* an authenticated, suspended user who is not a superuser
Held(u) ==
    /\ u \in sessions
    /\ users[u].is_suspended
    /\ ~users[u].is_superuser

\* C1: a phone whose status is 'sold' is still 'sold' after every request of
\* the exposed operations (buy, sell, assignment request, approve, reject,
\* seller suspension and activation, profile edit): it never becomes
\* 'assigned' and never returns to 'available'.
SoldStaysSold ==
    [][\A p \in PhoneIds :
          phones[p].status = "sold"
             => p \in 1..Len(phones') /\ phones'[p].status = "sold"]_vars

\* phone 2 has been bought and sold, and its owner's request to assign it
\* was then refused
SoldPhoneRefused ==
    /\ Len(phones) = 2
    /\ phones[2].status = "sold"
    /\ response = "redirect:phone_list"

\* C2: when the recipient approves a pending assignment, afterwards the
\* phone is 'available' and owned by the assignment's to_seller, the
\* assignment is 'approved', and the history has grown by exactly one row,
\* for that phone, with action 'approve'.
ApproveEffect ==
    [][\A u \in sessions, a \in AssignmentIds :
          (/\ approve_assignment_view(u, a)
           /\ ~users[u].is_suspended
           /\ assignments[a].to_seller = u
           /\ assignments[a].status = "pending")
             => /\ phones'[assignments[a].phone].status = "available"
                /\ phones'[assignments[a].phone].current_owner
                      = assignments[a].to_seller
                /\ assignments'[a].status = "approved"
                /\ Len(history') = Len(history) + 1
                /\ IsPrefix(history, history')
                /\ history'[Len(history')].phone = assignments[a].phone
                /\ history'[Len(history')].action = "approve"]_vars

\* an assignment has just been approved and the phone is with the recipient
Approved ==
    \E a \in AssignmentIds :
       /\ assignments[a].status = "approved"
       /\ phones[assignments[a].phone].current_owner = assignments[a].to_seller
       /\ phones[assignments[a].phone].status = "available"
       /\ history[Len(history)].action = "approve"
       /\ response = "redirect:assignment_list"

\* C3: when the recipient rejects a pending assignment, afterwards the phone
\* is 'available' with the owner it had before, the assignment is
\* 'rejected', and the history has grown by exactly one row, for that phone,
\* with action 'reject'.
RejectEffect ==
    [][\A u \in sessions, a \in AssignmentIds :
          (/\ reject_assignment_view(u, a)
           /\ ~users[u].is_suspended
           /\ assignments[a].to_seller = u
           /\ assignments[a].status = "pending")
             => /\ phones'[assignments[a].phone].status = "available"
                /\ phones'[assignments[a].phone].current_owner
                      = phones[assignments[a].phone].current_owner
                /\ assignments'[a].status = "rejected"
                /\ Len(history') = Len(history) + 1
                /\ IsPrefix(history, history')
                /\ history'[Len(history')].phone = assignments[a].phone
                /\ history'[Len(history')].action = "reject"]_vars

\* an assignment has just been rejected and the phone is back with the sender
Rejected ==
    \E a \in AssignmentIds :
       /\ assignments[a].status = "rejected"
       /\ phones[assignments[a].phone].current_owner = assignments[a].from_seller
       /\ phones[assignments[a].phone].status = "available"
       /\ history[Len(history)].action = "reject"
       /\ response = "redirect:assignment_list"

\* C4: every request of an authenticated, suspended, non-superuser user to
\* a route other than hold and logout is answered with the redirect to hold
\* and changes no table and no session; that user's request to hold renders
\* the hold page and the request to logout logs the user out.
SuspendedHeld ==
    [][\A u \in sessions :
          Held(u)
             => /\ \/ response' = "redirect:hold"
                         /\ UNCHANGED <<data, sessions, admin_edits>>
                   \/ ~GatedRequest(u)
                /\ hold_view(u) => response' = "render:hold" /\ UNCHANGED data
                /\ logout_view(u)
                      => /\ response' = "redirect:home"
                         /\ u \notin sessions'
                         /\ UNCHANGED data]_vars

\* a suspended seller with a pending assignment waiting for an answer has
\* just been sent to the hold page
HeldRecipientRedirected ==
    \E a \in AssignmentIds :
       /\ assignments[a].status = "pending"
       /\ Held(assignments[a].to_seller)
       /\ response = "redirect:hold"

\* C5: every successful self-registration adds exactly one account, with
\* role 'seller', is_suspended set and the reason 'New account pending
\* manager approval'; no registration adds an unsuspended account.
RegistrationPending ==
    [][users' # users /\ Len(users') # Len(users)
          => /\ \E u \in Requesters, n \in Usernames, e \in Emails :
                   /\ register_view(u, n, e, TRUE, TRUE)
                   /\ users'[Len(users')].username = n
             /\ Len(users') = Len(users) + 1
             /\ IsPrefix(users, users')
             /\ users'[Len(users')].role = "seller"
             /\ users'[Len(users')].is_suspended
             /\ users'[Len(users')].suspended_reason = PendingReason]_vars

\* a visitor has just registered
Registered ==
    /\ Len(users) > 2
    /\ users[Len(users)].role = "seller"
    /\ users[Len(users)].suspended_reason = PendingReason
    /\ response = "redirect:login"

\* C6: every stored SalesTransaction has profit = sale_price - cost_price
\* and commission_amount = profit * commission_rate / 100, to the cent.
SaveRecomputes ==
    \A t \in TransactionIds :
       /\ transactions[t].profit
             = transactions[t].sale_price - transactions[t].cost_price
       /\ 10000 * transactions[t].commission_amount
             - transactions[t].profit * transactions[t].commission_rate
               \in -5000..5000

\* the history action that belongs to a status change
TransitionAction(from, to) ==
    IF to = "sold" THEN {"sell"}
    ELSE IF to = "assigned" THEN {"assign"}
    ELSE {"approve", "reject"}

\* C7: every step that changes a phone's status appends exactly one
\* PhoneHistory row, for that phone, with the action of the transition:
\* 'sell', 'assign', 'approve' or 'reject'.
EveryTransitionRecorded ==
    [][\A p \in PhoneIds :
          phones'[p].status # phones[p].status
             => /\ Len(history') = Len(history) + 1
                /\ IsPrefix(history, history')
                /\ history'[Len(history')].phone = p
                /\ history'[Len(history')].action
                      \in TransitionAction(phones[p].status,
                                           phones'[p].status)]_vars

\* C8: the history of every state extends the history of the state before.
HistoryAppendOnly == [][IsPrefix(history, history')]_vars

Sale(p) ==
    /\ \E u \in Requesters, pr \in SalePrices, f \in Faults,
          m \in RoundingModes : sell_phone_view(u, p, pr, f, m)
    /\ phones[p].status = "available" /\ phones'[p].status = "sold"
    /\ phones'[p].current_owner = phones[p].current_owner

AssignmentRequest(p) ==
    /\ \E u \in Requesters, t \in Usernames : assign_phone_view(u, p, t)
    /\ phones[p].status = "available" /\ phones'[p].status = "assigned"
    /\ phones'[p].current_owner = phones[p].current_owner

Approval(p) ==
    \E u \in Requesters, a \in AssignmentIds :
       /\ approve_assignment_view(u, a)
       /\ assignments[a].phone = p
       /\ phones'[p].status = "available"
       /\ phones'[p].current_owner = assignments[a].to_seller

Rejection(p) ==
    /\ \E u \in Requesters, a \in AssignmentIds :
          reject_assignment_view(u, a) /\ assignments[a].phone = p
    /\ phones'[p].status = "available"
    /\ phones'[p].current_owner = phones[p].current_owner

AdminPhoneEdit(p) ==
    \E u \in Requesters, st \in STATUS_CHOICES, o \in Usernames :
       admin_phone_change(u, p, st, o)

FaultNext ==
    \E u \in Visitors : AgreementsRequest(u, {200}, {325}, Faults, {"half_even"})

SpecFaults == InitMarket({3, 4}) /\ [][FaultNext]_vars

\* the rows that belong to agreement a
SaleTransactions(a) == {t \in TransactionIds : transactions[t].agreement = a}

AgreementHistory(a, action) ==
    {h \in HistoryIds : history[h].agreement = a /\ history[h].action = action}

\* C11: every sell agreement has its phone marked 'sold', exactly one linked
\* SalesTransaction and exactly one 'sell' history row, and every phone has a
\* buy agreement with its 'buy' history row.
AgreementsComplete ==
    /\ \A a \in AgreementIds :
          agreements[a].agreement_type = "sell"
             => /\ phones[agreements[a].phone].status = "sold"
                /\ Cardinality(SaleTransactions(a)) = 1
                /\ Cardinality(AgreementHistory(a, "sell")) = 1
    /\ \A p \in PhoneIds :
          \E a \in AgreementIds :
             /\ agreements[a].agreement_type = "buy"
             /\ agreements[a].phone = p
             /\ Cardinality(AgreementHistory(a, "buy")) = 1

\* C12: an approve or reject request from anybody but the assignment's
\* to_seller leaves assignments, phones and history unchanged, and an
\* assignment's status changes only while it is pending and only by an
\* approve or reject request of its to_seller.
OnlyRecipientDecides ==
    [][/\ \A u \in Visitors, a \in AssignmentIds :
             (/\ approve_assignment_view(u, a) \/ reject_assignment_view(u, a)
              /\ assignments[a].to_seller # u)
                => UNCHANGED <<assignments, phones, history>>
       /\ \A a \in AssignmentIds :
             assignments'[a].status # assignments[a].status
                => /\ assignments[a].status = "pending"
                   /\ \/ approve_assignment_view(assignments[a].to_seller, a)
                      \/ reject_assignment_view(assignments[a].to_seller, a)]_vars

\* somebody's request was answered 404 while an assignment is waiting for
\* its recipient
PendingAssignmentNotFound ==
    \E a \in AssignmentIds :
       /\ assignments[a].status = "pending"
       /\ response = "404"

(***************************************************************************)
(* Onboarding: in the shop where seller 3 has bought and sold phone 1, a   *)
(* visitor registers as user 4, the manager or the superuser activates the *)
(* account, and whoever is logged in uses the inventory views.             *)
(***************************************************************************)
\* the account that the visitor registers
SelfRegistered == {4}

InitOnboarding ==
    /\ users = <<create_user(1, 1, "none", TRUE),
                 create_user(2, 2, "manager", FALSE),
                 [create_user(3, 3, "seller", FALSE) EXCEPT !.profile_complete = TRUE]>>
    /\ sessions = {}
    /\ phones = <<[imei |-> 1, serial_number |-> 1, status |-> "sold",
                   purchase_price |-> 200, current_owner |-> 3]>>
    /\ agreements = <<[agreement_type |-> "buy", phone |-> 1, seller |-> 3,
                       price |-> 200],
                      [agreement_type |-> "sell", phone |-> 1, seller |-> 3,
                       price |-> 325]>>
    /\ history = <<HistoryRow(1, "buy", 3, None, 1),
                   HistoryRow(1, "sell", 3, None, 2)>>
    /\ assignments = <<>>
    /\ transactions = <<[agreement |-> 2, seller |-> 3, phone |-> 1,
                         sale_price |-> 325, cost_price |-> 200,
                         profit |-> 125, commission_rate |-> 0,
                         commission_amount |-> 0, status |-> "completed",
                         sale_date |-> Now]>>
    /\ sales_targets = <<>>
    /\ in_flight = [w \in Workers |-> Idle]
    /\ admin_edits = 0
    /\ response = "none"

OnboardingNext ==
    \E u \in Visitors :
       \/ RegisterRequest(u, SelfRegistered, SelfRegistered, {TRUE})
       \/ LoginRequest(u, UserIds, {TRUE})
       \/ logout_view(u)
       \/ hold_view(u)
       \/ (\E e \in OwnEmail(u) : profile_view(u, e, TRUE))
       \/ ManagerRequest(u, SelfRegistered)
       \/ MarketRequest(u)

SpecOnboarding == InitOnboarding /\ [][OnboardingNext]_vars

\* a step in which u's inventory request wrote something
InventoryOperation(u) ==
    /\ MarketRequest(u)
    /\ <<phones, agreements, history, assignments, transactions>>'
          # <<phones, agreements, history, assignments, transactions>>

\* a step in which a manager or superuser activates seller s
Activation(s) ==
    \E m \in sessions :
       /\ users[m].role = "manager" \/ users[m].is_superuser
       /\ approve_seller_view(m, s, "approve") \/ toggle_seller_status_view(m, s)

\* C13: a self-registered account starts suspended, stops being suspended
\* only by an activation from a manager or superuser, and completes an
\* inventory operation only while it is not suspended; so its first
\* inventory operation comes after an activation.
ActivatedBeforeTrading ==
    [][/\ Len(users') > Len(users) => users'[Len(users')].is_suspended
       /\ \A s \in UserIds :
             users[s].is_suspended /\ ~users'[s].is_suspended => Activation(s)
       /\ \A u \in sessions :
             u \in SelfRegistered /\ InventoryOperation(u)
                => ~users[u].is_suspended]_vars

\* a self-registered seller has just bought a phone
SelfRegisteredSellerBought ==
    \E p \in PhoneIds :
       /\ phones[p].current_owner \in SelfRegistered
       /\ ~users[phones[p].current_owner].is_suspended
       /\ response = "redirect:agreement_detail"

\* the accounts that are meant to manage sellers
MayManageSellers(u) == users[u].role = "manager" \/ users[u].is_superuser

\* a request of u to one of the two seller-management routes
SellerManagementRequest(u) ==
    \/ \E s \in Usernames, a \in {"approve", "reject"} : approve_seller_view(u, s, a)
    \/ \E s \in Usernames : toggle_seller_status_view(u, s)

\* a step changes an account's suspension fields only when it is a
\* seller-management request of a manager or superuser
OnlyManagersSuspend ==
    \A s \in UserIds :
       <<users[s].is_suspended, users[s].suspended_at,
         users[s].suspended_reason, users[s].suspended_by>>
          # <<users'[s].is_suspended, users'[s].suspended_at,
              users'[s].suspended_reason, users'[s].suspended_by>>
          => \E m \in sessions :
                /\ MayManageSellers(m)
                /\ SellerManagementRequest(m)

\* C14 as stated: activation and suspension take effect only for a manager
\* or superuser, and the same request from any other authenticated user is
\* redirected to home and leaves every account unchanged.
OthersRedirectedHome ==
    [][/\ OnlyManagersSuspend
       /\ \A u \in sessions :
             ~MayManageSellers(u) /\ SellerManagementRequest(u)
                => response' = "redirect:home" /\ UNCHANGED users]_vars

\* C14, amended: the same request from any other authenticated user leaves
\* every account unchanged and is redirected to home, or to the hold page
\* when that user is suspended.
OthersRedirectedHomeOrHold ==
    [][/\ OnlyManagersSuspend
       /\ \A u \in sessions :
             ~MayManageSellers(u) /\ SellerManagementRequest(u)
                => /\ response' = IF users[u].is_suspended
                                  THEN "redirect:hold"
                                  ELSE "redirect:home"
                   /\ UNCHANGED users]_vars

\* seller 3 is logged in while the account of user 4 exists, and was sent home
SellerSentHome ==
    /\ 3 \in sessions
    /\ Len(users) = 4
    /\ response = "redirect:home"

(***************************************************************************)
(* Registration with every kind of form: passwords that match or not, new  *)
(* and taken usernames and emails, well-formed and malformed phone numbers.*)
(***************************************************************************)
RegistrationNext ==
    \E u \in Visitors :
       \/ RegisterRequest(u, Usernames, Emails, BOOLEAN)
       \/ LoginRequest(u, UserIds, BOOLEAN)
       \/ logout_view(u)
       \/ hold_view(u)

SpecRegistration == Init /\ [][RegistrationNext]_vars

\* C15: a registration request with mismatched passwords, a username or an
\* email that an account already has, or a malformed phone number creates
\* no account and changes no table and no session.
InvalidRegistrationRefused ==
    [][\A u \in Requesters, n \in Usernames, e \in Emails,
          pm \in BOOLEAN, po \in BOOLEAN :
          (/\ register_view(u, n, e, pm, po)
           /\ \/ ~pm
              \/ \E x \in UserIds : users[x].username = n
              \/ \E x \in UserIds : users[x].email = e
              \/ ~po)
             => UNCHANGED <<data, sessions>>]_vars

\* a form was shown again after somebody had registered
RegistrationFormShownAgain ==
    /\ Len(users) > 2
    /\ response = "render:register"

\* C16: no two phones share an IMEI or a serial number, and a buy request
\* whose IMEI or serial number a phone already has creates no phone, no
\* agreement and no history row.
ImeiAndSerialUnique ==
    /\ [](\A p \in PhoneIds, q \in PhoneIds :
             p # q => /\ phones[p].imei # phones[q].imei
                      /\ phones[p].serial_number # phones[q].serial_number)
    /\ [][\A u \in Requesters, i \in Imeis, s \in Serials,
             c \in Prices \cup {NullPrice}, f \in Faults :
             (/\ buy_phone_view(u, i, s, c, f)
              /\ \E p \in PhoneIds : \/ phones[p].imei = i
                                     \/ phones[p].serial_number = s)
                => UNCHANGED data]_vars

\* a purchase was refused while the table held a single phone
DuplicatePurchaseRefused ==
    /\ response = "render:buy_phone"
    /\ Len(phones) = 1

(***************************************************************************)
(* sales/models.py: SalesTarget.  achieved_value and target_value are      *)
(* two-decimal DecimalFields, counted in hundredths like the money.        *)
(***************************************************************************)
TARGET_TYPE_CHOICES == {"sales_count", "revenue", "profit"}

TargetIds == 1..Len(sales_targets)

\* DateTimeField.get_prep_value of a date: midnight of that day
DateTime(date) == date * TicksPerDay

\* the day an instant falls on
Date(instant) == instant \div TicksPerDay

\* update_progress: the rows of SalesTransaction.objects.filter(...), where
\* start_date and end_date are dates compared with the DateTimeField
SalesTarget_transactions(t) ==
    {x \in TransactionIds :
        /\ transactions[x].seller = t.seller
        /\ transactions[x].status = "completed"
        /\ transactions[x].sale_date >= DateTime(t.start_date)
        /\ transactions[x].sale_date <= DateTime(t.end_date)}

RECURSIVE Sum(_, _)
\* aggregate(total=Sum(field))['total'] or 0 over the rows S
Sum(field, S) ==
    IF S = {} THEN 0
    ELSE LET x == CHOOSE y \in S : TRUE
         IN  transactions[x][field] + Sum(field, S \ {x})

SalesTarget_check_achievement(t) ==
    IF t.achieved_value >= t.target_value /\ ~t.is_achieved
    THEN [t EXCEPT !.is_achieved = TRUE]
    ELSE t

SalesTarget_update_progress(t) ==
    IF ~t.is_active
    THEN t
    ELSE SalesTarget_check_achievement(
            [t EXCEPT !.achieved_value =
                CASE t.target_type = "sales_count" ->
                        100 * Cardinality(SalesTarget_transactions(t))
                  [] t.target_type = "revenue" ->
                        Sum("sale_price", SalesTarget_transactions(t))
                  [] t.target_type = "profit" ->
                        Sum("profit", SalesTarget_transactions(t))])

(***************************************************************************)
(* sales/admin.py: the update_progress action of SalesTargetAdmin on one   *)
(* selected target, and the status field of the SalesTransaction form.     *)
(***************************************************************************)
SalesTargetAdmin_has_change_permission(u) == is_superuser(u)

SalesTargetAdmin_update_progress(u, target_id) ==
    /\ u \in Requesters
    /\ target_id \in TargetIds
    /\ UNCHANGED <<in_flight, users, sessions, phones, agreements, history, assignments,
                   transactions, admin_edits>>
    /\ IF Dispatch(u, "admin", TRUE) # "pass"
       THEN Reply(Dispatch(u, "admin", TRUE)) /\ UNCHANGED sales_targets
       ELSE IF ~SalesTargetAdmin_has_change_permission(u)
       THEN Reply("redirect:login") /\ UNCHANGED sales_targets
       ELSE /\ sales_targets' = [sales_targets EXCEPT ![target_id] =
                                    SalesTarget_update_progress(@)]
            /\ Reply("redirect:admin")

admin_transaction_status_change(u, transaction_id, status) ==
    /\ u \in Requesters
    /\ admin_edits < MaxAdminEdits
    /\ transaction_id \in TransactionIds
    /\ UNCHANGED <<in_flight, users, sessions, phones, agreements, history, assignments,
                   sales_targets>>
    /\ IF Dispatch(u, "admin", TRUE) # "pass"
       THEN Reply(Dispatch(u, "admin", TRUE))
            /\ UNCHANGED <<transactions, admin_edits>>
       ELSE IF ~SalesTransactionAdmin_has_change_permission(u)
       THEN Reply("redirect:login") /\ UNCHANGED <<transactions, admin_edits>>
       ELSE /\ transactions' = [transactions EXCEPT ![transaction_id] =
                   SalesTransaction_save([@ EXCEPT !.status = status],
                                         "half_even")]
            /\ admin_edits' = admin_edits + 1
            /\ Reply("redirect:admin")

(***************************************************************************)
(* Sales targets: the shop after two sales, phone 1 sold by seller 3 at    *)
(* any instant of days 1 to 3 and phone 2 sold today by either seller,     *)
(* and one fresh target of seller 3 of any type, value and period.  The    *)
(* superuser updates the target's progress and edits transaction statuses. *)
(***************************************************************************)
SaleDates == DateTime(1)..(DateTime(4) - 1)
TargetValues == {100, 325}
TargetPeriods == {<<1, 2>>, <<2, 2>>}

InitTargets ==
    /\ users = <<create_user(1, 1, "none", TRUE),
                 create_user(2, 2, "manager", FALSE),
                 [create_user(3, 3, "seller", FALSE) EXCEPT !.profile_complete = TRUE],
                 [create_user(4, 4, "seller", FALSE) EXCEPT !.profile_complete = TRUE]>>
    /\ sessions = {1, 3}
    /\ \E s \in {3, 4}, d \in SaleDates, st \in {"completed", "refunded"} :
          /\ phones = <<[imei |-> 1, serial_number |-> 1, status |-> "sold",
                         purchase_price |-> 200, current_owner |-> 3],
                        [imei |-> 2, serial_number |-> 2, status |-> "sold",
                         purchase_price |-> 200, current_owner |-> s]>>
          /\ agreements = <<[agreement_type |-> "buy", phone |-> 1, seller |-> 3,
                             price |-> 200],
                            [agreement_type |-> "sell", phone |-> 1, seller |-> 3,
                             price |-> 325],
                            [agreement_type |-> "buy", phone |-> 2, seller |-> s,
                             price |-> 200],
                            [agreement_type |-> "sell", phone |-> 2, seller |-> s,
                             price |-> 325]>>
          /\ history = <<HistoryRow(1, "buy", 3, None, 1),
                         HistoryRow(1, "sell", 3, None, 2),
                         HistoryRow(2, "buy", s, None, 3),
                         HistoryRow(2, "sell", s, None, 4)>>
          /\ transactions = <<[agreement |-> 2, seller |-> 3, phone |-> 1,
                               sale_price |-> 325, cost_price |-> 200,
                               profit |-> 125, commission_rate |-> 0,
                               commission_amount |-> 0, status |-> "completed",
                               sale_date |-> d],
                              [agreement |-> 4, seller |-> s, phone |-> 2,
                               sale_price |-> 325, cost_price |-> 200,
                               profit |-> 125, commission_rate |-> 0,
                               commission_amount |-> 0, status |-> st,
                               sale_date |-> Now]>>
    /\ assignments = <<>>
    /\ \E ty \in TARGET_TYPE_CHOICES, v \in TargetValues, p \in TargetPeriods,
          a \in BOOLEAN :
          sales_targets = <<[seller |-> 3, target_type |-> ty, target_value |-> v,
                             achieved_value |-> 0, start_date |-> p[1],
                             end_date |-> p[2], is_active |-> a,
                             is_achieved |-> FALSE]>>
    /\ in_flight = [w \in Workers |-> Idle]
    /\ admin_edits = 0
    /\ response = "none"

TargetsNext ==
    \E u \in Visitors :
       \/ \E t \in TargetIds : SalesTargetAdmin_update_progress(u, t)
       \/ \E t \in TransactionIds, st \in {"completed", "refunded"} :
             admin_transaction_status_change(u, t, st)

SpecTargets == InitTargets /\ [][TargetsNext]_vars

\* the completed transactions of the target's seller dated within
\* [start_date, end_date]
TransactionsInPeriod(t) ==
    {x \in TransactionIds :
        /\ transactions[x].seller = t.seller
        /\ transactions[x].status = "completed"
        /\ Date(transactions[x].sale_date) >= t.start_date
        /\ Date(transactions[x].sale_date) <= t.end_date}

\* C17: after update_progress on an active target, achieved_value is the
\* count, the sale_price sum or the profit sum of the seller's completed
\* transactions dated within [start_date, end_date], and is_achieved is true
\* exactly when achieved_value >= target_value.
TargetIsFunctionOfTransactions ==
    [][\A u \in Requesters, t \in TargetIds :
          (/\ SalesTargetAdmin_update_progress(u, t)
           /\ response' = "redirect:admin"
           /\ sales_targets[t].is_active)
             => /\ sales_targets'[t].achieved_value =
                      CASE sales_targets[t].target_type = "sales_count" ->
                              100 * Cardinality(TransactionsInPeriod(sales_targets[t]))
                        [] sales_targets[t].target_type = "revenue" ->
                              Sum("sale_price", TransactionsInPeriod(sales_targets[t]))
                        [] sales_targets[t].target_type = "profit" ->
                              Sum("profit", TransactionsInPeriod(sales_targets[t]))
                /\ sales_targets'[t].is_achieved =
                      (sales_targets'[t].achieved_value
                          >= sales_targets'[t].target_value)]_vars

\* C18: an assignment request changes something only if the requester owns
\* the phone, the phone is available and the recipient is a non-suspended
\* seller other than the requester; it then adds exactly one pending
\* assignment from the requester to the recipient and sets the phone's
\* status to 'assigned', the owner staying; otherwise the tables are untouched.
AssignmentRequestEffect ==
    [][\/ UNCHANGED data
       \/ \A u \in Requesters, p \in 1..MaxPhones, t \in Usernames :
             assign_phone_view(u, p, t)
             =>    /\ p \in PhoneIds
                   /\ phones[p].current_owner = u
                   /\ phones[p].status = "available"
                   /\ t \in UserIds
                   /\ users[t].role = "seller"
                   /\ ~users[t].is_suspended
                   /\ t # u
                   /\ assignments' = Append(assignments,
                          [phone |-> p, from_seller |-> u, to_seller |-> t,
                           status |-> "pending"])
                   /\ phones' = [phones EXCEPT ![p].status = "assigned"]
                   /\ phones'[p].current_owner = u
                   /\ UNCHANGED <<users, agreements, history, transactions,
                                  sales_targets>>]_vars

\* the owner has just sent a phone to another seller
AssignmentRequested ==
    /\ response = "redirect:phone_list"
    /\ \E a \in AssignmentIds :
          /\ assignments[a].status = "pending"
          /\ phones[assignments[a].phone].status = "assigned"
          /\ phones[assignments[a].phone].current_owner = assignments[a].from_seller

\* C19: a sell request for a phone whose status is 'assigned' or 'sold' is
\* rejected: it creates no agreement, no SalesTransaction and no history row
\* and leaves the phone, like every other row, unchanged.
OnlyAvailablePhonesSold ==
    [][\A p \in PhoneIds :
          phones[p].status \in {"assigned", "sold"}
             => \A u \in Requesters, a \in SalePrices, f \in Faults,
                   m \in RoundingModes :
                   sell_phone_view(u, p, a, f, m)
                      => /\ UNCHANGED data
                         /\ response' # "redirect:agreement_detail"]_vars

\* a sale was refused while one phone was sold and the other assigned
UnavailablePhoneNotSold ==
    /\ response = "redirect:phone_detail"
    /\ Len(phones) = 2
    /\ phones[1].status = "sold"
    /\ phones[2].status = "assigned"

(***************************************************************************)
(* agreements/views.py: sell_phone_view statement by statement, for        *)
(* requests that several workers handle at the same time.  The handler     *)
(* runs in autocommit mode: no transaction.atomic, no select_for_update;   *)
(* every create() and save() is a write of its own.  A worker keeps the    *)
(* Phone object it has loaded and, from the first write on, the agreement. *)
(***************************************************************************)
\* lines 706-725: middleware, login_required, the lookup and the two checks
sell_phone_view_check(w, u, phone_id, agreed_price) ==
    /\ in_flight[w].pc = "idle"
    /\ u \in Requesters
    /\ UNCHANGED <<data, sessions, admin_edits>>
    /\ IF Dispatch(u, "sell_phone", TRUE) # "pass"
       THEN Reply(Dispatch(u, "sell_phone", TRUE)) /\ UNCHANGED in_flight
       ELSE IF ~sell_phone_lookup(u, phone_id)
       THEN Reply("404") /\ UNCHANGED in_flight
       ELSE IF ~sell_phone_available(phone_id)
       THEN Reply("redirect:phone_detail") /\ UNCHANGED in_flight
       ELSE IF ~profile_complete(u)
       THEN Reply("redirect:profile") /\ UNCHANGED in_flight
       ELSE /\ in_flight' = [in_flight EXCEPT ![w] =
                   [pc |-> "create_agreement", user |-> u,
                    phone_id |-> phone_id, agreed_price |-> agreed_price,
                    phone |-> phones[phone_id], agreement |-> None]]
            /\ UNCHANGED response

\* lines 734-744: Agreement.objects.create
sell_phone_view_create_agreement(w) ==
    /\ in_flight[w].pc = "create_agreement"
    /\ Len(agreements) < MaxAgreements
    /\ agreements' = Append(agreements,
           [agreement_type |-> "sell", phone |-> in_flight[w].phone_id,
            seller |-> in_flight[w].user, price |-> in_flight[w].agreed_price])
    /\ in_flight' = [in_flight EXCEPT ![w].pc = "save_phone",
                                      ![w].agreement = Len(agreements) + 1]
    /\ UNCHANGED <<users, sessions, phones, history, assignments, transactions,
                   sales_targets, admin_edits, response>>

\* lines 760-762: phone.status = 'sold'; phone.save() writes every column of
\* the loaded object
sell_phone_view_save_phone(w) ==
    /\ in_flight[w].pc = "save_phone"
    /\ phones' = [phones EXCEPT ![in_flight[w].phone_id] =
                     [in_flight[w].phone EXCEPT !.status = "sold"]]
    /\ in_flight' = [in_flight EXCEPT ![w].pc = "create_transaction"]
    /\ UNCHANGED <<users, sessions, agreements, history, assignments,
                   transactions, sales_targets, admin_edits, response>>

\* lines 764-781: SalesTransaction.objects.create
sell_phone_view_create_transaction(w) ==
    /\ in_flight[w].pc = "create_transaction"
    /\ transactions' = Append(transactions,
           SalesTransaction_save(
              [agreement |-> in_flight[w].agreement, seller |-> in_flight[w].user,
               phone |-> in_flight[w].phone_id,
               sale_price |-> in_flight[w].agreed_price,
               cost_price |-> cost_price_of(in_flight[w].phone),
               profit |-> in_flight[w].agreed_price
                          - cost_price_of(in_flight[w].phone),
               commission_rate |-> 0, commission_amount |-> 0,
               status |-> "completed", sale_date |-> Now],
              "half_even"))
    /\ in_flight' = [in_flight EXCEPT ![w].pc = "create_history"]
    /\ UNCHANGED <<users, sessions, phones, agreements, history, assignments,
                   sales_targets, admin_edits, response>>

\* lines 783-793: PhoneHistory.objects.create and the redirect
sell_phone_view_create_history(w) ==
    /\ in_flight[w].pc = "create_history"
    /\ history' = Append(history,
           HistoryRow(in_flight[w].phone_id, "sell", in_flight[w].user, None,
                      in_flight[w].agreement))
    /\ in_flight' = [in_flight EXCEPT ![w] = Idle]
    /\ Reply("redirect:agreement_detail")
    /\ UNCHANGED <<users, sessions, phones, agreements, assignments,
                   transactions, sales_targets, admin_edits>>

(***************************************************************************)
(* Concurrent sales: seller 3 owns the available phone 1; both sellers are *)
(* logged in and sale requests are handled by the workers in any           *)
(* interleaving of their statements.                                       *)
(***************************************************************************)
InitConcurrentSales ==
    /\ users = <<create_user(1, 1, "none", TRUE),
                 create_user(2, 2, "manager", FALSE),
                 [create_user(3, 3, "seller", FALSE) EXCEPT !.profile_complete = TRUE],
                 [create_user(4, 4, "seller", FALSE) EXCEPT !.profile_complete = TRUE]>>
    /\ sessions = {3, 4}
    /\ phones = <<[imei |-> 1, serial_number |-> 1, status |-> "available",
                   purchase_price |-> 200, current_owner |-> 3]>>
    /\ agreements = <<[agreement_type |-> "buy", phone |-> 1, seller |-> 3,
                       price |-> 200]>>
    /\ history = <<HistoryRow(1, "buy", 3, None, 1)>>
    /\ assignments = <<>>
    /\ transactions = <<>>
    /\ sales_targets = <<>>
    /\ in_flight = [w \in Workers |-> Idle]
    /\ admin_edits = 0
    /\ response = "none"

ConcurrentSalesNext ==
    \E w \in Workers :
       \/ \E u \in Visitors, p \in 1..MaxPhones : sell_phone_view_check(w, u, p, 325)
       \/ sell_phone_view_create_agreement(w)
       \/ sell_phone_view_save_phone(w)
       \/ sell_phone_view_create_transaction(w)
       \/ sell_phone_view_create_history(w)

SpecConcurrentSales == InitConcurrentSales /\ [][ConcurrentSalesNext]_vars

\* the sell agreements and the sales transactions of phone p
SellAgreementsOf(p) ==
    {a \in AgreementIds : /\ agreements[a].agreement_type = "sell"
                          /\ agreements[a].phone = p}

SalesTransactionsOf(p) == {t \in TransactionIds : transactions[t].phone = p}

\* C20: with sale requests running concurrently, each phone has at most
\* one sell agreement and at most one SalesTransaction.
SoldAtMostOnce ==
    \A p \in PhoneIds : /\ Cardinality(SellAgreementsOf(p)) <= 1
                        /\ Cardinality(SalesTransactionsOf(p)) <= 1

(***************************************************************************)
(* agreements/views.py and agreements/models.py: assign_phone_view,        *)
(* approve_assignment_view and reject_assignment_view statement by         *)
(* statement.  Like sell_phone_view they run in autocommit mode; save()    *)
(* writes every column of the object the worker has loaded.                *)
(***************************************************************************)
\* lines 805-823: middleware, login_required, the phone lookup, the status
\* test, the recipient lookup and the self-assignment test
assign_phone_view_check(w, u, phone_id, to_seller) ==
    /\ in_flight[w].pc = "idle"
    /\ u \in Requesters
    /\ UNCHANGED <<data, sessions, admin_edits>>
    /\ IF Dispatch(u, "assign_phone", TRUE) # "pass"
       THEN Reply(Dispatch(u, "assign_phone", TRUE)) /\ UNCHANGED in_flight
       ELSE IF ~assign_phone_lookup(u, phone_id)
       THEN Reply("404") /\ UNCHANGED in_flight
       ELSE IF ~assign_phone_available(phone_id)
       THEN Reply("redirect:phone_list") /\ UNCHANGED in_flight
       ELSE IF ~assign_phone_recipient(to_seller)
       THEN Reply("render:assign_phone") /\ UNCHANGED in_flight
       ELSE IF to_seller = u
       THEN Reply("redirect:assign_phone") /\ UNCHANGED in_flight
       ELSE /\ in_flight' = [in_flight EXCEPT ![w] =
                   [pc |-> "assign_create", user |-> u, phone_id |-> phone_id,
                    to_seller |-> to_seller, phone |-> phones[phone_id]]]
            /\ UNCHANGED response

\* lines 826-832: PhoneAssignment.objects.create
assign_phone_view_create_assignment(w) ==
    /\ in_flight[w].pc = "assign_create"
    /\ Len(assignments) < MaxConcurrentAssignments
    /\ assignments' = Append(assignments,
           [phone |-> in_flight[w].phone_id, from_seller |-> in_flight[w].user,
            to_seller |-> in_flight[w].to_seller, status |-> "pending"])
    /\ in_flight' = [in_flight EXCEPT ![w].pc = "assign_save_phone"]
    /\ UNCHANGED <<users, sessions, phones, agreements, history, transactions,
                   sales_targets, admin_edits, response>>

\* lines 834-839: phone.status = 'assigned'; phone.save(); redirect
assign_phone_view_save_phone(w) ==
    /\ in_flight[w].pc = "assign_save_phone"
    /\ phones' = [phones EXCEPT ![in_flight[w].phone_id] =
                     [in_flight[w].phone EXCEPT !.status = "assigned"]]
    /\ in_flight' = [in_flight EXCEPT ![w] = Idle]
    /\ Reply("redirect:phone_list")
    /\ UNCHANGED <<users, sessions, agreements, history, assignments,
                   transactions, sales_targets, admin_edits>>

\* approve_assignment_view / reject_assignment_view, lines 883-893 and
\* 904-914: middleware, login_required and get_object_or_404(...,
\* to_seller=request.user, status='pending'); decision is "approve" or "reject"
decide_assignment_view_lookup(w, u, assignment_id, decision) ==
    /\ in_flight[w].pc = "idle"
    /\ u \in Requesters
    /\ UNCHANGED <<data, sessions, admin_edits>>
    /\ IF Dispatch(u, "approve_assignment", TRUE) # "pass"
       THEN Reply(Dispatch(u, "approve_assignment", TRUE)) /\ UNCHANGED in_flight
       ELSE IF ~approve_assignment_lookup(u, assignment_id)
       THEN Reply("404") /\ UNCHANGED in_flight
       ELSE /\ in_flight' = [in_flight EXCEPT ![w] =
                   [pc |-> "decide_load_phone", decision |-> decision,
                    assignment_id |-> assignment_id,
                    assignment |-> assignments[assignment_id]]]
            /\ UNCHANGED response

\* PhoneAssignment.approve / reject: self.phone is fetched at its first use
decide_assignment_load_phone(w) ==
    /\ in_flight[w].pc = "decide_load_phone"
    /\ in_flight' = [in_flight EXCEPT ![w] =
           [pc |-> "decide_save_phone", decision |-> in_flight[w].decision,
            assignment_id |-> in_flight[w].assignment_id,
            assignment |-> in_flight[w].assignment,
            phone |-> phones[in_flight[w].assignment.phone]]]
    /\ UNCHANGED <<data, sessions, admin_edits, response>>

\* approve: current_owner = to_seller, status = 'available', self.phone.save();
\* reject: status = 'available', self.phone.save()
decide_assignment_save_phone(w) ==
    /\ in_flight[w].pc = "decide_save_phone"
    /\ phones' = [phones EXCEPT ![in_flight[w].assignment.phone] =
           IF in_flight[w].decision = "approve"
           THEN [in_flight[w].phone EXCEPT
                    !.current_owner = in_flight[w].assignment.to_seller,
                    !.status = "available"]
           ELSE [in_flight[w].phone EXCEPT !.status = "available"]]
    /\ in_flight' = [in_flight EXCEPT ![w].pc = "decide_save_assignment"]
    /\ UNCHANGED <<users, sessions, agreements, history, assignments,
                   transactions, sales_targets, admin_edits, response>>

\* self.status = 'approved' or 'rejected'; self.save()
decide_assignment_save_assignment(w) ==
    /\ in_flight[w].pc = "decide_save_assignment"
    /\ assignments' = [assignments EXCEPT ![in_flight[w].assignment_id] =
           [in_flight[w].assignment EXCEPT !.status =
               IF in_flight[w].decision = "approve" THEN "approved"
                                                    ELSE "rejected"]]
    /\ in_flight' = [in_flight EXCEPT ![w].pc = "decide_create_history"]
    /\ UNCHANGED <<users, sessions, phones, agreements, history, transactions,
                   sales_targets, admin_edits, response>>

\* PhoneHistory.objects.create and the view's redirect
decide_assignment_create_history(w) ==
    /\ in_flight[w].pc = "decide_create_history"
    /\ history' = Append(history,
           IF in_flight[w].decision = "approve"
           THEN HistoryRow(in_flight[w].assignment.phone, "approve",
                           in_flight[w].assignment.from_seller,
                           in_flight[w].assignment.to_seller, None)
           ELSE HistoryRow(in_flight[w].assignment.phone, "reject",
                           in_flight[w].assignment.to_seller,
                           in_flight[w].assignment.from_seller, None))
    /\ in_flight' = [in_flight EXCEPT ![w] = Idle]
    /\ Reply("redirect:assignment_list")
    /\ UNCHANGED <<users, sessions, phones, agreements, assignments,
                   transactions, sales_targets, admin_edits>>

(***************************************************************************)
(* Concurrent transfers: the sellers 3 and 4 send assignment, sale,        *)
(* approve and reject requests for phone 1 at the same time.               *)
(***************************************************************************)
Decisions == {"approve", "reject"}

\* no worker is in the middle of a request
Quiescent == \A w \in Workers : in_flight[w].pc = "idle"

\* the pending assignments of phone p
PendingAssignmentsOf(p) ==
    {a \in AssignmentIds : /\ assignments[a].phone = p
                           /\ assignments[a].status = "pending"}

\* C21: whenever no request is in progress, each phone has at most one
\* pending assignment and its status is 'assigned' exactly when it has a
\* pending assignment, for every interleaving of concurrent assignment,
\* sale, approve and reject requests.
AssignedIffPending ==
    Quiescent =>
       \A p \in PhoneIds :
          /\ Cardinality(PendingAssignmentsOf(p)) <= 1
          /\ phones[p].status = "assigned" <=> PendingAssignmentsOf(p) # {}

\* assignment and sale requests statement by statement; the recipient's
\* approve and reject requests are handled in between
ConcurrentAssignmentsNext ==
    \/ \E w \in Workers :
          \/ \E u \in Visitors, p \in 1..MaxPhones :
                sell_phone_view_check(w, u, p, 325)
          \/ sell_phone_view_create_agreement(w)
          \/ sell_phone_view_save_phone(w)
          \/ sell_phone_view_create_transaction(w)
          \/ sell_phone_view_create_history(w)
          \/ \E u \in Visitors, p \in 1..MaxPhones, t \in Usernames :
                assign_phone_view_check(w, u, p, t)
          \/ assign_phone_view_create_assignment(w)
          \/ assign_phone_view_save_phone(w)
    \/ \E u \in Visitors, a \in 1..MaxConcurrentAssignments :
          \/ approve_assignment_view(u, a)
          \/ reject_assignment_view(u, a)

SpecConcurrentAssignments ==
    InitConcurrentSales /\ [][ConcurrentAssignmentsNext]_vars

(***************************************************************************)
(* Concurrent decisions: seller 3 has sent phone 1 to seller 4; approve    *)
(* and reject requests for that assignment are handled by the workers in   *)
(* any interleaving of their statements.                                   *)
(***************************************************************************)
InitConcurrentDecisions ==
    /\ users = <<create_user(1, 1, "none", TRUE),
                 create_user(2, 2, "manager", FALSE),
                 [create_user(3, 3, "seller", FALSE) EXCEPT !.profile_complete = TRUE],
                 [create_user(4, 4, "seller", FALSE) EXCEPT !.profile_complete = TRUE]>>
    /\ sessions = {3, 4}
    /\ phones = <<[imei |-> 1, serial_number |-> 1, status |-> "assigned",
                   purchase_price |-> 200, current_owner |-> 3]>>
    /\ agreements = <<[agreement_type |-> "buy", phone |-> 1, seller |-> 3,
                       price |-> 200]>>
    /\ history = <<HistoryRow(1, "buy", 3, None, 1)>>
    /\ assignments = <<[phone |-> 1, from_seller |-> 3, to_seller |-> 4,
                        status |-> "pending"]>>
    /\ transactions = <<>>
    /\ sales_targets = <<>>
    /\ in_flight = [w \in Workers |-> Idle]
    /\ admin_edits = 0
    /\ response = "none"

ConcurrentDecisionsNext ==
    \E w \in Workers :
       \/ \E u \in Visitors, a \in 1..MaxConcurrentAssignments, d \in Decisions :
             decide_assignment_view_lookup(w, u, a, d)
       \/ decide_assignment_load_phone(w)
       \/ decide_assignment_save_phone(w)
       \/ decide_assignment_save_assignment(w)
       \/ decide_assignment_create_history(w)

SpecConcurrentDecisions ==
    InitConcurrentDecisions /\ [][ConcurrentDecisionsNext]_vars

\* the 'approve' and 'reject' history rows of phone p
DecisionRowsOf(p) ==
    {h \in HistoryIds : /\ history[h].phone = p
                        /\ history[h].action \in Decisions}

\* C22: of concurrent approve and reject requests for one pending
\* assignment exactly one takes effect: the assignment's status changes once
\* and, when no request is in progress, an assignment has at most one
\* 'approve' or 'reject' history row and the phone belongs to the to_seller
\* exactly when the assignment ended 'approved'.
OneDecisionTakesEffect ==
    /\ [](Quiescent =>
            \A a \in AssignmentIds :
               /\ Cardinality(DecisionRowsOf(assignments[a].phone)) <= 1
               /\ assignments[a].status # "pending"
                     => (phones[assignments[a].phone].current_owner
                            = assignments[a].to_seller
                         <=> assignments[a].status = "approved"))
    /\ [][\A a \in AssignmentIds :
             assignments[a].status # "pending"
                => assignments'[a].status = assignments[a].status]_vars

\* C23: only the owner of a phone can sell it: a sell request by a user who
\* is not the phone's current_owner changes nothing, so that the seller of
\* every new sell agreement and SalesTransaction is the owner at the moment
\* of the sale.
OnlyOwnerSells ==
    [][\A p \in PhoneIds, u \in Requesters :
          phones[p].current_owner # u
             => \A a \in SalePrices, f \in Faults, m \in RoundingModes :
                   sell_phone_view(u, p, a, f, m) => UNCHANGED data]_vars

(***************************************************************************)
(* accounts/admin.py: the change form of CustomUserAdmin.  role,           *)
(* is_superuser (from UserAdmin.fieldsets) and is_suspended are form       *)
(* fields; suspended_at is read-only.                                      *)
(***************************************************************************)
CustomUserAdmin_has_change_permission(u) == is_superuser(u)

admin_user_change(u, user_id, superuser, suspended) ==
    /\ u \in Requesters
    /\ admin_edits < MaxAdminEdits
    /\ user_id \in UserIds
    /\ UNCHANGED <<sessions, phones, agreements, history, assignments,
                   transactions, sales_targets, in_flight>>
    /\ IF Dispatch(u, "admin", TRUE) # "pass"
       THEN Reply(Dispatch(u, "admin", TRUE)) /\ UNCHANGED <<users, admin_edits>>
       ELSE IF ~CustomUserAdmin_has_change_permission(u)
       THEN Reply("redirect:login") /\ UNCHANGED <<users, admin_edits>>
       ELSE /\ users' = [users EXCEPT ![user_id].is_superuser = superuser,
                                      ![user_id].is_suspended = suspended]
            /\ admin_edits' = admin_edits + 1
            /\ Reply("redirect:admin")

(***************************************************************************)
(* Superusers: from the fresh installation, sellers register, users log in *)
(* and out and open pages, and the superuser edits accounts in the admin.  *)
(***************************************************************************)
SuperusersNext ==
    \E u \in Visitors :
       \/ RegisterRequest(u, {3}, {3}, {TRUE})
       \/ LoginRequest(u, UserIds, {TRUE})
       \/ logout_view(u)
       \/ hold_view(u)
       \/ PageRequest(u)
       \/ \E x \in Usernames, su \in BOOLEAN, sp \in BOOLEAN :
             admin_user_change(u, x, su, sp)

SpecSuperusers == Init /\ [][SuperusersNext]_vars

\* C24: suspension never gates a superuser: a superuser whose is_suspended
\* flag is set is not sent to the hold page at login, nor by any later
\* request.
SuperuserNeverHeld ==
    [][\A s \in UserIds :
          (users[s].is_superuser /\ users[s].is_suspended)
             => /\ \A u \in Requesters :
                      login_view(u, s, TRUE) => response' # "redirect:hold"
                /\ s \in Requesters
                      => (PageRequest(s) => response' # "redirect:hold")]_vars

\* the recipient's approve or reject request for assignment a taking effect
RecipientDecides(a) ==
    /\ \/ approve_assignment_view(assignments[a].to_seller, a)
       \/ reject_assignment_view(assignments[a].to_seller, a)
    /\ assignments'[a].status # "pending"

\* C25: a phone in 'assigned' status can always get back to 'available':
\* whenever a phone is 'assigned', an approve or reject of its pending
\* assignment by the recipient is enabled.
AssignedPhoneCanBeReleased ==
    \A a \in AssignmentIds :
       (/\ assignments[a].status = "pending"
        /\ phones[assignments[a].phone].status = "assigned")
          => ENABLED RecipientDecides(a)

(***************************************************************************)
(* Emails: from the fresh installation, visitors register with any email,  *)
(* users log in and out and save their profile with any email.             *)
(***************************************************************************)
EmailsNext ==
    \E u \in Visitors :
       \/ RegisterRequest(u, Usernames, Emails, {TRUE})
       \/ LoginRequest(u, UserIds, {TRUE})
       \/ logout_view(u)
       \/ ProfileRequest(u, Emails)

SpecEmails == Init /\ [][EmailsNext]_vars

\* C26: no two user accounts have the same email address.
EmailsUnique ==
    \A x \in UserIds, y \in UserIds :
       x # y => users[x].email # users[y].email

(***************************************************************************)
(* Following redirects.  A browser of any kind of user opens one of the    *)
(* routes home, login, logout, hold or manager_dashboard and then requests *)
(* whatever route the last response redirects to.                          *)
(***************************************************************************)
\* admin:index, the target of the redirects for superusers: the admin site
\* shows its index to a superuser and its own login form to anybody else
admin_index_view(u) ==
    /\ u \in Requesters
    /\ UNCHANGED <<data, sessions, in_flight, admin_edits>>
    /\ IF Dispatch(u, "admin", FALSE) # "pass"
       THEN Reply(Dispatch(u, "admin", FALSE))
       ELSE IF is_superuser(u) THEN Reply("render:admin")
       ELSE Reply("render:admin_login")

\* the responses that end a chain of redirects
RenderedPages ==
    {"render", "render:landing", "render:login", "render:hold",
     "render:admin", "render:admin_login"}

StartRoutes == {"home", "login", "logout", "hold", "manager_dashboard"}

\* the browser's user: the logged-in user, or nobody
Browser(u) == IF sessions = {} THEN u = Anon ELSE u \in sessions

\* a GET request of the browser's user for the route named path
Visit(u, path) ==
    /\ Browser(u)
    /\ \/ path = "home" /\ home_view(u)
       \/ path = "login" /\ \E t \in UserIds : login_view(u, t, FALSE)
       \/ path = "logout" /\ logout_view(u)
       \/ path = "hold" /\ hold_view(u)
       \/ path \in ReadRoutes \cup ManagerReadRoutes /\ read_view(u, path)
       \/ path = "admin" /\ admin_index_view(u)

\* every kind of user: the superuser, the manager, a seller and a user
\* without a role, each suspended or not, one of them logged in or nobody
InitRedirects ==
    /\ \E s1 \in BOOLEAN, s2 \in BOOLEAN, s3 \in BOOLEAN, s4 \in BOOLEAN :
          users = <<[create_user(1, 1, "none", TRUE) EXCEPT !.is_suspended = s1],
                    [create_user(2, 2, "manager", FALSE) EXCEPT !.is_suspended = s2],
                    [create_user(3, 3, "seller", FALSE) EXCEPT !.is_suspended = s3],
                    [create_user(4, 4, "none", FALSE) EXCEPT !.is_suspended = s4]>>
    /\ sessions \in {{}, {1}, {2}, {3}, {4}}
    /\ phones = <<>>
    /\ agreements = <<>>
    /\ history = <<>>
    /\ assignments = <<>>
    /\ transactions = <<>>
    /\ sales_targets = <<>>
    /\ in_flight = [w \in Workers |-> Idle]
    /\ admin_edits = 0
    /\ response = "none"

\* the first request of the browser
StartChain(u) == response = "none" /\ \E path \in StartRoutes : Visit(u, path)

\* the browser follows the redirect of the last response
FollowRedirect(u) ==
    \E path \in {"home", "login", "hold", "admin"}
                   \cup ReadRoutes \cup ManagerReadRoutes :
       response = "redirect:" \o path /\ Visit(u, path)

RedirectsNext == \E u \in Visitors : StartChain(u) \/ FollowRedirect(u)

\* a browser does follow a redirect it has received
SpecRedirects ==
    InitRedirects /\ [][RedirectsNext]_vars /\ WF_vars(RedirectsNext)

\* C27: following redirects always terminates: for every kind of user and
\* every starting route the chain of redirects reaches a rendered page.
RedirectsTerminate == <>(response \in RenderedPages)

\* the suspended superuser's chain has ended on the hold page
SuspendedSuperuserOnHoldPage ==
    /\ response = "render:hold"
    /\ \E u \in sessions : users[u].is_superuser /\ users[u].is_suspended

(***************************************************************************)
(* Seller management: the shop with the superuser and the manager logged   *)
(* in; they toggle and approve or reject the sellers, and the superuser    *)
(* edits accounts in the admin.                                            *)
(***************************************************************************)
SellerManagementNext ==
    \E u \in Visitors :
       \/ ManagerRequest(u, Usernames)
       \/ hold_view(u)
       \/ \E x \in Usernames, su \in BOOLEAN, sp \in BOOLEAN :
             admin_user_change(u, x, su, sp)

SpecSellerManagement == InitMarket({1, 2}) /\ [][SellerManagementNext]_vars

\* the toggle request of u for the seller s flips the flag and records u
ToggleFlips(u, s) ==
    toggle_seller_status_view(u, s)
       => /\ users'[s].is_suspended = ~users[s].is_suspended
          /\ users'[s].is_suspended => users'[s].suspended_by = u

\* toggling twice gives back the flag of every account
DoubleToggleRestores ==
    \A s \in UserIds, m \in UserIds, n \in UserIds :
       toggle_seller_status(toggle_seller_status(users[s], m), n).is_suspended
          = users[s].is_suspended

SuspensionMetadataConsistent ==
    \A x \in UserIds :
       /\ users[x].is_suspended <=> users[x].suspended_at
       /\ ~users[x].is_suspended
             => /\ users[x].suspended_reason = ""
                /\ users[x].suspended_by = None

\* a registered seller has been activated and another one suspended by hand
SellersActivatedAndSuspended ==
    \E x \in UserIds, y \in UserIds :
       /\ users[x].role = "seller" /\ ~users[x].is_suspended
       /\ users[y].role = "seller" /\ users[y].is_suspended
       /\ users[y].suspended_by # None
====
